---- MODULE Spec2Model ----
(***************************************************************************)
(* Hello World API (app/main.py): a FastAPI application with five routes.  *)
(* The model covers the route table built by the decorators, the request   *)
(* body validation of GreetingRequest, the five handlers, and the process  *)
(* state the handlers read: os.environ and the clock.  What the framework  *)
(* does with the declarations (route matching, the documentation routes,   *)
(* the validation of a str field) is modelled as the declarations invoke   *)
(* it.  info() is annotated Dict[str, any], which a FastAPI that makes     *)
(* response models of return annotations refuses at import, so the         *)
(* application runs on FastAPI before 0.89 and pydantic 1 only, and that   *)
(* is the build modelled.                                                  *)
(*                                                                         *)
(* Strings that the program inspects character by character (the name of   *)
(* a greeting) are sequences of Unicode code points.  A URL path is the    *)
(* sequence of its segments, path.split("/")[1:], so "/" is <<"">>,        *)
(* "/health" is <<"health">> and "/health/" is <<"health", "">>.           *)
(***************************************************************************)
EXTENDS Integers, Sequences, FiniteSets, TLC

VARIABLES
    environ,         \* os.environ restricted to the key the program reads
    now,             \* the clock read by datetime.utcnow()
    openapi_schema,  \* app.openapi_schema, generated on the first /openapi.json request
    last,            \* the latest request handled, with its response
    pinned           \* an earlier exchange kept for comparison

vars == <<environ, now, openapi_schema, last, pinned>>

----------------------------------------------------------------------------
(* Bounds of the model *)

\* longest name sent to POST /greet
MaxLen == 2

\* last reading of the clock
MaxClock == 1

\* code points names are built from: tab, newline, carriage return, space,
\* "A", no-break space
Alphabet == {9, 10, 13, 32, 65, 160}

\* JSON numbers sent as a name
Numbers == {-7, 0, 42}

\* values the ENVIRONMENT variable is set to
EnvValues == {"", "production"}

Names == UNION {[1..n -> Alphabet] : n \in 0..MaxLen}

----------------------------------------------------------------------------
(* Process state read by the handlers *)

Environs == {{}} \cup {{<<"ENVIRONMENT", v>>} : v \in EnvValues}

\* a lookup that takes an empty value for a missing one: os.getenv(key) or default
getenv_or_default(key, default) ==
    IF \E kv \in environ : kv[1] = key /\ kv[2] # ""
    THEN (CHOOSE kv \in environ : kv[1] = key)[2]
    ELSE default

\* os.getenv(key, default)
getenv(key, default) ==
    IF \E kv \in environ : kv[1] = key
    THEN (CHOOSE kv \in environ : kv[1] = key)[2]
    ELSE default

\* datetime.utcnow().isoformat(): the text of the clock reading t
isoformat(t) == <<"utc", t>>

----------------------------------------------------------------------------
(* Python strings *)

\* "Hello, "
HelloPrefix == <<72, 101, 108, 108, 111, 44, 32>>

\* "!"
Bang == <<33>>

\* whitespace as str.strip() with no argument understands it (Py_UNICODE_ISSPACE)
IsSpace(ch) ==
    \/ ch \in 9..13
    \/ ch \in 28..32
    \/ ch = 133
    \/ ch = 160
    \/ ch = 5760
    \/ ch \in 8192..8202
    \/ ch \in {8232, 8233, 8239, 8287, 12288}

RECURSIVE lstrip(_)
lstrip(s) ==
    IF s # <<>> /\ IsSpace(Head(s)) THEN lstrip(Tail(s)) ELSE s

RECURSIVE rstrip(_)
rstrip(s) ==
    IF s # <<>> /\ IsSpace(s[Len(s)])
    THEN rstrip(SubSeq(s, 1, Len(s) - 1))
    ELSE s

\* a strip() that knows only the space, the tab and the newline
strip_ascii_blanks(s) ==
    LET Narrow(ch) == ch \in {9, 10, 32}
        RECURSIVE L(_), R(_)
        L(t) == IF t # <<>> /\ Narrow(Head(t)) THEN L(Tail(t)) ELSE t
        R(t) == IF t # <<>> /\ Narrow(t[Len(t)])
                THEN R(SubSeq(t, 1, Len(t) - 1)) ELSE t
    IN  R(L(s))

\* str.strip()
strip(s) == rstrip(lstrip(s))

\* str(n) for an int n
RECURSIVE Digits(_)
Digits(n) ==
    IF n < 10 THEN <<48 + n>> ELSE Digits(n \div 10) \o <<48 + (n % 10)>>

IntToStr(n) == IF n < 0 THEN <<45>> \o Digits(-n) ELSE Digits(n)

\* str(True), str(False)
BoolToStr(b) == IF b THEN <<84, 114, 117, 101>> ELSE <<70, 97, 108, 115, 101>>

----------------------------------------------------------------------------
(* Requests *)

NoBody == [kind |-> "none"]

\* the JSON values a body carries under "name"
JsonValues ==
    {[type |-> "string", str |-> n] : n \in Names}
    \cup {[type |-> "number", num |-> k] : k \in Numbers}
    \cup {[type |-> "boolean", bool |-> b] : b \in BOOLEAN}
    \cup {[type |-> "null"], [type |-> "array"], [type |-> "object"]}

\* JSON objects: {} and {"name": v}
JsonBodies ==
    {[kind |-> "json", fields |-> {}]}
    \cup {[kind |-> "json", fields |-> {<<"name", v>>}] : v \in JsonValues}

Methods == {"GET", "POST", "PUT", "HEAD"}

Paths ==
    { <<"">>, <<"health">>, <<"hello">>, <<"greet">>, <<"info">>,
      <<"docs">>, <<"openapi.json">>, <<"redoc">>, <<"docs", "oauth2-redirect">>,
      <<"nonexistent">>, <<"health", "">>, <<"greet", "">>, <<"docs", "">>,
      <<"health", "", "">>, <<"nonexistent", "">>, <<"", "">> }

Request(method, path, body) == [method |-> method, path |-> path, body |-> body]

StringBody(name) ==
    [kind |-> "json", fields |-> {<<"name", [type |-> "string", str |-> name]>>}]

\* "Alice"
Alice == <<65, 108, 105, 99, 101>>

\* every method on every path, and a few greetings
Requests ==
    {Request(m, p, NoBody) : m \in Methods, p \in Paths}
    \cup {Request("POST", <<"greet">>, b) :
            b \in {StringBody(Alice), StringBody(<<>>), StringBody(<<32, 32, 32>>),
                   [kind |-> "json", fields |-> {}]}}

\* POST /greet with every body
GreetRequests ==
    {Request("POST", <<"greet">>, b) : b \in JsonBodies \cup {NoBody}}

\* the requests whose responses are compared across a run
ProbeRequests ==
    { Request("GET", <<"">>, NoBody),
      Request("GET", <<"health">>, NoBody),
      Request("GET", <<"info">>, NoBody),
      Request("GET", <<"openapi.json">>, NoBody),
      Request("POST", <<"hello">>, NoBody),
      Request("GET", <<"nonexistent">>, NoBody),
      Request("POST", <<"greet">>, StringBody(Alice)),
      Request("POST", <<"greet">>, StringBody(<<32>>)),
      Request("POST", <<"greet">>,
              [kind |-> "json", fields |-> {<<"name", [type |-> "number", num |-> 42]>>}]) }

----------------------------------------------------------------------------
(* Pydantic models *)

HasField(body, key) ==
    body.kind = "json" /\ \E kv \in body.fields : kv[1] = key

Field(body, key) == (CHOOSE kv \in body.fields : kv[1] = key)[2]

\* The validation of a value against the annotation str, as pydantic 1 does
\* it (the field asks for no strictness): a string is taken as it is, a
\* number or a boolean is converted with str(), and null, arrays and objects
\* are refused.
str_validator(v) ==
    CASE v.type = "string"  -> [valid |-> TRUE, value |-> v.str]
      [] v.type = "number"  -> [valid |-> TRUE, value |-> IntToStr(v.num)]
      [] v.type = "boolean" -> [valid |-> TRUE, value |-> BoolToStr(v.bool)]
      [] OTHER -> [valid |-> FALSE]

\* class GreetingRequest(BaseModel): name: str
GreetingRequest(body) ==
    IF ~HasField(body, "name")
    THEN [valid |-> FALSE]
    ELSE LET r == str_validator(Field(body, "name"))
         IN  IF r.valid THEN [valid |-> TRUE, name |-> r.value]
                        ELSE [valid |-> FALSE]

----------------------------------------------------------------------------
(* Handlers.  A handler returns a value, or raises an HTTPException. *)

Return(value) == [raised |-> FALSE, value |-> value]

HTTPException(status_code, detail) ==
    [raised |-> TRUE, status_code |-> status_code, detail |-> detail]

\* a root() that reports the environment as the other endpoints do
root_with_environment ==
    Return([message |-> "Welcome to Hello World API",
            docs |-> "/docs",
            health |-> "/health",
            environment |-> getenv("ENVIRONMENT", "development")])

\* @app.get("/")
root ==
    Return([message |-> "Welcome to Hello World API",
            docs |-> "/docs",
            health |-> "/health"])

\* @app.get("/health", response_model=HealthResponse)
health_check ==
    Return([status |-> "healthy",
            timestamp |-> isoformat(now),
            environment |-> getenv("ENVIRONMENT", "development"),
            version |-> "1.0.0"])

\* a hello() that leaves the timestamp out
hello_without_timestamp ==
    Return([message |-> "Hello, World!"])

\* @app.get("/hello", response_model=HelloResponse)
hello ==
    Return([message |-> "Hello, World!", timestamp |-> isoformat(now)])

\* a greet() that greets the trimmed name
greet_trimmed(request) ==
    IF Len(request.name) = 0 \/ Len(strip(request.name)) = 0
    THEN HTTPException(400, "Name cannot be empty")
    ELSE Return([greeting |-> HelloPrefix \o strip(request.name) \o Bang,
                 timestamp |-> isoformat(now)])

\* a greet() that rejects the empty name only
greet_unstripped(request) ==
    IF Len(request.name) = 0
    THEN HTTPException(400, "Name cannot be empty")
    ELSE Return([greeting |-> HelloPrefix \o request.name \o Bang,
                 timestamp |-> isoformat(now)])

\* @app.post("/greet", response_model=GreetingResponse)
greet(request) ==
    IF Len(request.name) = 0 \/ Len(strip(request.name)) = 0
    THEN HTTPException(400, "Name cannot be empty")
    ELSE Return([greeting |-> HelloPrefix \o request.name \o Bang,
                 timestamp |-> isoformat(now)])

\* an info() whose list names the greeting route with the wrong method
info_wrong_method ==
    Return([name |-> "Hello World API",
            version |-> "1.0.0",
            environment |-> getenv("ENVIRONMENT", "development"),
            endpoints |->
              << [path |-> "/", method |-> "GET", description |-> "Root endpoint"],
                 [path |-> "/health", method |-> "GET", description |-> "Health check"],
                 [path |-> "/hello", method |-> "GET", description |-> "Simple hello"],
                 [path |-> "/greet", method |-> "GET",
                  description |-> "Personalized greeting"],
                 [path |-> "/info", method |-> "GET",
                  description |-> "API information"] >>])

\* an info() that reports the environment read while the request before it
\* was handled (a value cached at module level), not the one of its own time
info_cached_environment ==
    Return([name |-> "Hello World API",
            version |-> "1.0.0",
            environment |->
                IF ~last.handled THEN getenv("ENVIRONMENT", "development")
                ELSE IF last.environ = {} THEN "development"
                ELSE (CHOOSE kv \in last.environ : TRUE)[2],
            endpoints |->
              << [path |-> "/", method |-> "GET", description |-> "Root endpoint"],
                 [path |-> "/health", method |-> "GET", description |-> "Health check"],
                 [path |-> "/hello", method |-> "GET", description |-> "Simple hello"],
                 [path |-> "/greet", method |-> "POST",
                  description |-> "Personalized greeting"],
                 [path |-> "/info", method |-> "GET",
                  description |-> "API information"] >>])

\* @app.get("/info")
info ==
    Return([name |-> "Hello World API",
            version |-> "1.0.0",
            environment |-> getenv("ENVIRONMENT", "development"),
            endpoints |->
              << [path |-> "/", method |-> "GET", description |-> "Root endpoint"],
                 [path |-> "/health", method |-> "GET", description |-> "Health check"],
                 [path |-> "/hello", method |-> "GET", description |-> "Simple hello"],
                 [path |-> "/greet", method |-> "POST",
                  description |-> "Personalized greeting"],
                 [path |-> "/info", method |-> "GET",
                  description |-> "API information"] >>])

----------------------------------------------------------------------------
(* The application: FastAPI(title=..., description=..., version=...) and    *)
(* the routes the decorators add to it.                                    *)

\* the segments of the paths the program names: path.split("/")[1:]
path_segments(p) ==
    CASE p = "/"                      -> <<"">>
      [] p = "/health"                -> <<"health">>
      [] p = "/hello"                 -> <<"hello">>
      [] p = "/greet"                 -> <<"greet">>
      [] p = "/info"                  -> <<"info">>
      [] p = "/docs"                  -> <<"docs">>
      [] p = "/redoc"                 -> <<"redoc">>
      [] p = "/openapi.json"          -> <<"openapi.json">>
      [] p = "/docs/oauth2-redirect"  -> <<"docs", "oauth2-redirect">>

Route(path, methods, endpoint) ==
    [path |-> path_segments(path), methods |-> methods, endpoint |-> endpoint]

\* The constructor adds the documentation routes (openapi_url, docs_url,
\* swagger_ui_oauth2_redirect_url, redoc_url keep their defaults); a plain
\* route that answers GET answers HEAD too.  The decorators then add the
\* five API routes, each with the one method of its decorator.
routes ==
    << Route("/openapi.json", {"GET", "HEAD"}, "openapi"),
       Route("/docs", {"GET", "HEAD"}, "swagger_ui_html"),
       Route("/docs/oauth2-redirect", {"GET", "HEAD"}, "swagger_ui_redirect"),
       Route("/redoc", {"GET", "HEAD"}, "redoc_html"),
       Route("/", {"GET"}, "root"),
       Route("/health", {"GET"}, "health_check"),
       Route("/hello", {"GET"}, "hello"),
       Route("/greet", {"POST"}, "greet"),
       Route("/info", {"GET"}, "info") >>

\* a match that looks at the path alone
matches_any_method(route, method, path) ==
    IF route.path # path THEN "NONE" ELSE "FULL"

\* Route.matches
matches(route, method, path) ==
    IF route.path # path THEN "NONE"
    ELSE IF method \in route.methods THEN "FULL"
    ELSE "PARTIAL"

\* path.rstrip("/")
RECURSIVE rstrip_slash(_)
rstrip_slash(path) ==
    IF path # <<>> /\ path[Len(path)] = ""
    THEN rstrip_slash(SubSeq(path, 1, Len(path) - 1))
    ELSE path

\* the path the router tries when nothing matched (redirect_slashes)
toggle_slash(path) ==
    IF path[Len(path)] = "" THEN rstrip_slash(path) ELSE Append(path, "")

Min(S) == CHOOSE x \in S : \A y \in S : x <= y

\* Router.app: the first full match wins; failing that, the first route that
\* matches the path alone answers 405; failing that, a path that matches
\* once its trailing slash is toggled is redirected; the rest is not found.
resolve(method, path) ==
    LET full    == {i \in DOMAIN routes : matches(routes[i], method, path) = "FULL"}
        partial == {i \in DOMAIN routes : matches(routes[i], method, path) = "PARTIAL"}
    IN  IF full # {}
        THEN [kind |-> "endpoint", endpoint |-> routes[Min(full)].endpoint]
        ELSE IF partial # {}
        THEN [kind |-> "method_not_allowed"]
        ELSE IF /\ path # <<"">>
                /\ \E i \in DOMAIN routes :
                      matches(routes[i], method, toggle_slash(path)) # "NONE"
        THEN [kind |-> "redirect", path |-> toggle_slash(path)]
        ELSE [kind |-> "not_found"]

\* get_openapi(title=app.title, version=app.version, routes=app.routes)
get_openapi ==
    [title |-> "Hello World API",
     version |-> "1.0.0",
     paths |-> <<"/", "/health", "/hello", "/greet", "/info">>]

\* FastAPI.openapi(): the schema is generated once and kept
openapi ==
    IF openapi_schema = {} THEN get_openapi ELSE CHOOSE d \in openapi_schema : TRUE

JSONResponse(status_code, body) == [status_code |-> status_code, body |-> body]

\* a handler's outcome as a response
respond(outcome) ==
    IF outcome.raised
    THEN JSONResponse(outcome.status_code, [detail |-> outcome.detail])
    ELSE JSONResponse(200, outcome.value)

\* the request handler of each route: the body is validated against the
\* handler's parameters before the handler is called
run_endpoint(endpoint, request) ==
    CASE endpoint = "root"         -> respond(root)
      [] endpoint = "health_check" -> respond(health_check)
      [] endpoint = "hello"        -> respond(hello)
      [] endpoint = "info"         -> respond(info)
      [] endpoint = "greet" ->
            LET parsed == GreetingRequest(request.body)
            IN  IF parsed.valid
                THEN respond(greet(parsed))
                ELSE JSONResponse(422, [errors |-> <<"body">>])
      [] endpoint = "openapi" -> JSONResponse(200, openapi)
      [] OTHER -> JSONResponse(200, [html |-> endpoint])

\* the application called with one request
app(request) ==
    LET found == resolve(request.method, request.path)
    IN  CASE found.kind = "endpoint" -> run_endpoint(found.endpoint, request)
          [] found.kind = "method_not_allowed" ->
                JSONResponse(405, [detail |-> "Method Not Allowed"])
          [] found.kind = "redirect" ->
                JSONResponse(307, [location |-> found.path])
          [] found.kind = "not_found" ->
                JSONResponse(404, [detail |-> "Not Found"])

----------------------------------------------------------------------------
(* Behaviour *)

NoExchange == [handled |-> FALSE]

Exchange(request) ==
    [handled |-> TRUE, request |-> request, environ |-> environ,
     route |-> resolve(request.method, request.path),
     response |-> app(request)]

\* a response without the value of its timestamp
WithoutTimestamp(response) ==
    [response EXCEPT !.body =
        [k \in (DOMAIN response.body) \ {"timestamp"} |-> response.body[k]]]

Init ==
    /\ environ \in Environs
    /\ now = 0
    /\ openapi_schema = {}
    /\ last = NoExchange
    /\ pinned = {}

\* one request, from its arrival to its response
HandleRequest(request) ==
    /\ last' = Exchange(request)
    /\ openapi_schema' =
          IF resolve(request.method, request.path) =
                [kind |-> "endpoint", endpoint |-> "openapi"]
          THEN {openapi}
          ELSE openapi_schema
    /\ UNCHANGED <<environ, now, pinned>>

\* the operator sets or unsets ENVIRONMENT in the running process
SetEnvironment(e) ==
    /\ e # environ
    /\ environ' = e
    /\ UNCHANGED <<now, openapi_schema, last, pinned>>

\* time passes
Tick ==
    /\ now < MaxClock
    /\ now' = now + 1
    /\ UNCHANGED <<environ, openapi_schema, last, pinned>>

Next ==
    \/ \E request \in Requests : HandleRequest(request)
    \/ \E e \in Environs : SetEnvironment(e)
    \/ Tick

Spec == Init /\ [][Next]_vars

\* the greeting endpoint alone, with every body
NextGreet ==
    \/ \E request \in GreetRequests : HandleRequest(request)
    \/ Tick

SpecGreet == Init /\ [][NextGreet]_vars

\* a request handled, its exchange kept or not for later comparison
HandleAndPin(request) ==
    /\ last' = Exchange(request)
    /\ openapi_schema' =
          IF resolve(request.method, request.path) =
                [kind |-> "endpoint", endpoint |-> "openapi"]
          THEN {openapi}
          ELSE openapi_schema
    /\ pinned' \in {pinned,
                    {[request |-> request, environ |-> environ, at |-> now,
                      response |-> WithoutTimestamp(app(request))]}}
    /\ UNCHANGED <<environ, now>>

NextPinned ==
    \/ \E request \in ProbeRequests : HandleAndPin(request)
    \/ \E e \in Environs : SetEnvironment(e)
    \/ Tick

SpecPinned == Init /\ [][NextPinned]_vars

----------------------------------------------------------------------------
(* Properties *)

\* the latest exchange is an answer to this method and path
Answered(method, path) ==
    /\ last.handled
    /\ last.request.method = method
    /\ last.request.path = path

\* the latest exchange is an answer to POST /greet whose body names a string
GreetedString ==
    /\ Answered("POST", <<"greet">>)
    /\ HasField(last.request.body, "name")
    /\ Field(last.request.body, "name").type = "string"

SentName == Field(last.request.body, "name").str

\* the characters Unicode calls whitespace, as Python trims them
Whitespace ==
    (9..13) \cup (28..32) \cup {133, 160, 5760} \cup (8192..8202)
    \cup {8232, 8233, 8239, 8287, 12288}

AllWhitespace(s) == \A i \in 1..Len(s) : s[i] \in Whitespace

\* only spaces, tabs and newlines
AllSpaceTabNewline(s) == \A i \in 1..Len(s) : s[i] \in {32, 9, 10}

\* C1: a name that is not blank after trimming whitespace is greeted with
\* status 200 and "Hello, " + name + "!", the name untrimmed.
C1_GreetingKeepsName ==
    (GreetedString /\ ~AllWhitespace(SentName)) =>
        /\ last.response.status_code = 200
        /\ last.response.body.greeting =
              <<72, 101, 108, 108, 111, 44, 32>> \o SentName \o <<33>>

\* a name with a leading space was greeted
C1_Witness ==
    /\ GreetedString
    /\ SentName = <<32, 65>>
    /\ last.response.status_code = 200

\* C2: a name that is empty or all whitespace is answered 400 with the
\* detail "Name cannot be empty", never with a greeting.
C2_BlankNameRejected ==
    (GreetedString /\ AllWhitespace(SentName)) =>
        /\ last.response.status_code = 400
        /\ last.response.body = [detail |-> "Name cannot be empty"]

\* a name of a tab and a space was rejected
C2_Witness ==
    /\ GreetedString
    /\ SentName = <<9, 32>>
    /\ last.response.status_code = 400

\* C3: POST /greet whose body has no name, or a name that is not a string,
\* is answered 422, never 400 or 200.
C3_NonStringIs422 ==
    (/\ Answered("POST", <<"greet">>)
     /\ \/ ~HasField(last.request.body, "name")
        \/ Field(last.request.body, "name").type # "string")
    => last.response.status_code = 422

\* the five routes the program declares
ApiRoutes ==
    { <<"GET", <<"">>, "root">>,
      <<"GET", <<"health">>, "health_check">>,
      <<"GET", <<"hello">>, "hello">>,
      <<"POST", <<"greet">>, "greet">>,
      <<"GET", <<"info">>, "info">> }

ApiPaths == {r[2] : r \in ApiRoutes}

\* the routes of the generated documentation
DocRoutes ==
    { <<<<"openapi.json">>, "openapi">>,
      <<<<"docs">>, "swagger_ui_html">>,
      <<<<"docs", "oauth2-redirect">>, "swagger_ui_redirect">>,
      <<<<"redoc">>, "redoc_html">> }

DocPaths == {r[1] : r \in DocRoutes}

\* path is a routed path other than "/" followed by one or more slashes
SlashedRoutedPath(path) ==
    \E d \in (ApiPaths \cup DocPaths) \ {<<"">>} :
        \E k \in 1..Len(path) : path = d \o [i \in 1..k |-> ""]

\* C4 as stated: one of the five pairs goes to its handler, any path outside
\* the five is answered 404, one of the five paths with another method 405.
C4_FiveRoutesOnly ==
    last.handled =>
        LET m == last.request.method
            p == last.request.path
        IN  IF \E r \in ApiRoutes : r[1] = m /\ r[2] = p
            THEN /\ last.route.kind = "endpoint"
                 /\ <<m, p, last.route.endpoint>> \in ApiRoutes
            ELSE IF p \notin ApiPaths
            THEN last.response.status_code = 404
            ELSE last.response.status_code = 405

\* C4, amended: one of the five pairs goes to its handler; GET and HEAD on a
\* documentation path go to the documentation handler; a routed path with
\* another method is answered 405; a path that is a routed path plus
\* trailing slashes is redirected with 307; any other path is answered 404.
C4_RoutingOutcome ==
    last.handled =>
        LET m == last.request.method
            p == last.request.path
            status == last.response.status_code
        IN  IF \E r \in ApiRoutes : r[1] = m /\ r[2] = p
            THEN /\ last.route.kind = "endpoint"
                 /\ <<m, p, last.route.endpoint>> \in ApiRoutes
                 /\ status \in {200, 400, 422}
            ELSE IF p \in DocPaths /\ m \in {"GET", "HEAD"}
            THEN /\ last.route.kind = "endpoint"
                 /\ <<p, last.route.endpoint>> \in DocRoutes
                 /\ status = 200
            ELSE IF p \in ApiPaths \cup DocPaths
            THEN status = 405
            ELSE IF SlashedRoutedPath(p)
            THEN status = 307
            ELSE status = 404

\* GET /health/ was redirected to /health
C4_Witness ==
    /\ Answered("GET", <<"health", "">>)
    /\ last.response = JSONResponse(307, [location |-> <<"health">>])

\* the value of ENVIRONMENT in an environment, "development" when unset
EnvironmentIn(env) ==
    IF env = {} THEN "development"
    ELSE (CHOOSE kv \in env : TRUE)[2]

\* C5: GET /health and GET /info report the value ENVIRONMENT has when the
\* request is handled, and "development" when it is unset.
C5_EnvironmentReported ==
    (Answered("GET", <<"health">>) \/ Answered("GET", <<"info">>)) =>
        /\ last.response.status_code = 200
        /\ last.response.body.environment = EnvironmentIn(last.environ)

\* GET /info was answered while ENVIRONMENT was set to the empty string, and
\* the variable has been unset since
C5_Witness ==
    /\ Answered("GET", <<"info">>)
    /\ last.environ = {<<"ENVIRONMENT", "">>}
    /\ last.response.body.environment = ""
    /\ environ = {}

\* the latest exchange is a 200 answer of one of these endpoints
Ok(endpoints) ==
    /\ last.handled
    /\ last.route.kind = "endpoint"
    /\ last.route.endpoint \in endpoints
    /\ last.response.status_code = 200

HasTimestamp ==
    /\ "timestamp" \in DOMAIN last.response.body
    /\ \E t \in 0..now : last.response.body.timestamp = <<"utc", t>>

\* C6 as stated: every 200 answer of /health, /hello, /greet and /info has a
\* timestamp.
C6_TimestampEverywhere ==
    Ok({"health_check", "hello", "greet", "info"}) => HasTimestamp

\* C6, amended: every 200 answer of /health, /hello and /greet has a
\* timestamp, the text of a clock reading; the answer of /info has none.
C6_TimestampPresent ==
    /\ Ok({"health_check", "hello", "greet"}) => HasTimestamp
    /\ Ok({"info"}) => "timestamp" \notin DOMAIN last.response.body

\* a greeting was answered after the clock advanced
C6_Witness ==
    /\ Ok({"greet"})
    /\ last.response.body.timestamp = <<"utc", 1>>

\* C7: the endpoints list of GET /info has five entries, in the order
\* GET /, GET /health, GET /hello, POST /greet, GET /info, and the router
\* answers none of them with 404 or 405.
C7_InfoListsRoutes ==
    Answered("GET", <<"info">>) =>
        LET listed == last.response.body.endpoints
        IN  /\ Len(listed) = 5
            /\ [i \in 1..Len(listed) |-> <<listed[i].method, listed[i].path>>] =
                  << <<"GET", "/">>, <<"GET", "/health">>, <<"GET", "/hello">>,
                     <<"POST", "/greet">>, <<"GET", "/info">> >>
            /\ \A i \in 1..Len(listed) :
                  /\ resolve(listed[i].method, path_segments(listed[i].path)).kind
                        = "endpoint"
                  /\ app(Request(listed[i].method, path_segments(listed[i].path),
                                 NoBody)).status_code \notin {404, 405}

\* GET /info was answered
C7_Witness ==
    /\ Answered("GET", <<"info">>)
    /\ last.response.status_code = 200
    /\ Len(last.response.body.endpoints) = 5

\* C8: GET / is always answered 200 with exactly the welcome message, the
\* docs path and the health path.
C8_RootIsConstant ==
    Answered("GET", <<"">>) =>
        /\ last.response.status_code = 200
        /\ last.response.body =
              [message |-> "Welcome to Hello World API",
               docs |-> "/docs",
               health |-> "/health"]

\* GET / was answered with ENVIRONMENT set and the clock advanced
C8_Witness ==
    /\ Answered("GET", <<"">>)
    /\ last.environ = {<<"ENVIRONMENT", "production">>}
    /\ now > 0

\* C9 as stated: a string name is rejected with 400 exactly when all its
\* characters are spaces, tabs or newlines, and is greeted with 200 otherwise.
C9_TrimsSpaceTabNewlineOnly ==
    GreetedString =>
        last.response.status_code =
            IF AllSpaceTabNewline(SentName) THEN 400 ELSE 200

\* C9, amended: a string name is rejected with 400 exactly when all its
\* characters are whitespace as str.strip() trims it, which takes in the
\* carriage return and the no-break space, and is greeted with 200 otherwise.
C9_TrimsAllWhitespace ==
    GreetedString =>
        last.response.status_code =
            IF AllWhitespace(SentName) THEN 400 ELSE 200

\* a name of one carriage return was rejected
C9_Witness ==
    /\ GreetedString
    /\ SentName = <<13>>
    /\ last.response.status_code = 400

\* C10: a request answered again under the same ENVIRONMENT gets the same
\* status and body, the timestamp apart, whatever was handled in between.
C10_RequestsIndependent ==
    \A p \in pinned :
        (/\ last.handled
         /\ last.request = p.request
         /\ last.environ = p.environ)
        => WithoutTimestamp(last.response) = p.response

\* GET /health was answered, the schema was requested and the clock advanced,
\* and GET /health was answered again
C10_Witness ==
    \E p \in pinned :
        /\ p.request = Request("GET", <<"health">>, NoBody)
        /\ p.at = 0
        /\ last.handled
        /\ last.request = p.request
        /\ last.environ = p.environ
        /\ last.response.body.timestamp = <<"utc", 1>>
        /\ openapi_schema # {}

====
